---- MODULE Spec2Model ----
(***************************************************************************)
(* mysh.py: a line-oriented command interpreter.  One interpreter process  *)
(* reads command lines; a line with a `|` goes to execute_pipeline, any    *)
(* other line is interpolated, tokenized and dispatched to a built-in or   *)
(* to execute_external_command.  The model keeps the interpreter's control *)
(* position, its environment and directories, every child process with its *)
(* descriptor table, and the pipes' contents.                              *)
(*                                                                         *)
(* A string is a sequence of one-character strings.                        *)
(***************************************************************************)
EXTENDS Integers, Sequences, FiniteSets, TLC

\* ------------------------------------------------------------------ bounds

\* Lines one session reads.
MaxCycles == 2
\* Bytes a finite program writes; also the bytes the logs keep.
MaxBytes == 2
\* Pieces (a literal, a ${NAME}, a \${NAME}) of a string given to replace_variables.
MaxPieces == 3
\* A pipe holds what a finite program writes, so only an endless writer fills it.
PipeCap == MaxBytes

\* ----------------------------------------------------------- characters

Letters == {"a", "b", "c", "d", "e", "h", "n", "o", "p", "r", "s", "t", "u", "v", "w", "x", "y",
            "H", "M", "O", "E", "X", "P", "W", "D", "L", "_"}
Digits == {"0", "1", "2", "3"}
SQ == "'"
DQ == "\""
BS == "\\"
\* The text preprocess_command puts in place of an escaped quote, kept as one unit.
SINGLE_QUOTE_PLACEHOLDER == "__SINGLE_QUOTE__"
DOUBLE_QUOTE_PLACEHOLDER == "__DOUBLE_QUOTE__"

\* A letter outside ASCII, kept as one unit.
E_ACUTE == "U+00E9"
\* `\w` of the regular expressions: on str patterns it matches every Unicode
\* word character, the first-character class [a-zA-Z_] does not.
WordChars == Letters \cup Digits \cup {E_ACUTE}

\* ------------------------------------------------------- sequence helpers

Slice(s, a, b) == IF a > b THEN <<>> ELSE SubSeq(s, a, b)
Range(f) == {f[x] : x \in DOMAIN f}
Min(a, b) == IF a < b THEN a ELSE b

RECURSIVE Join(_, _)
\* sep.join(parts)
Join(parts, sep) ==
    IF Len(parts) = 0 THEN <<>>
    ELSE IF Len(parts) = 1 THEN parts[1]
    ELSE parts[1] \o sep \o Join(Tail(parts), sep)

\* cmd.strip() == ""
IsBlank(s) == \A i \in 1..Len(s) : s[i] = " "

\* '|' in cmd
HasPipeChar(s) == \E i \in 1..Len(s) : s[i] = "|"

\* ------------------------------------------------------- the tokenizers

TokFail == [ok |-> FALSE, args |-> <<>>]

RECURSIVE Lex(_, _, _, _, _, _)
\* shlex in posix mode with whitespace_split: s from position i, q the open quote
\* ("" when none), cur the word so far, inw whether a word is open, toks the words.
Lex(s, i, q, cur, inw, toks) ==
    IF i > Len(s)
    THEN IF q # "" THEN TokFail
         ELSE [ok |-> TRUE, args |-> IF inw THEN Append(toks, cur) ELSE toks]
    ELSE LET c == s[i] IN
         IF q = SQ
         THEN IF c = SQ THEN Lex(s, i + 1, "", cur, TRUE, toks)
              ELSE Lex(s, i + 1, q, Append(cur, c), TRUE, toks)
         ELSE IF q = DQ
         THEN IF c = DQ THEN Lex(s, i + 1, "", cur, TRUE, toks)
              ELSE IF c = BS
              THEN IF i = Len(s) THEN TokFail
                   ELSE IF s[i + 1] \in {DQ, BS}
                   THEN Lex(s, i + 2, q, Append(cur, s[i + 1]), TRUE, toks)
                   ELSE Lex(s, i + 2, q, cur \o <<c, s[i + 1]>>, TRUE, toks)
              ELSE Lex(s, i + 1, q, Append(cur, c), TRUE, toks)
         ELSE IF c = " "
         THEN Lex(s, i + 1, "", <<>>, FALSE, IF inw THEN Append(toks, cur) ELSE toks)
         ELSE IF c \in {SQ, DQ} THEN Lex(s, i + 1, c, cur, TRUE, toks)
         ELSE IF c = BS
         THEN IF i = Len(s) THEN TokFail
              ELSE Lex(s, i + 2, "", Append(cur, s[i + 1]), TRUE, toks)
         ELSE Lex(s, i + 1, "", Append(cur, c), TRUE, toks)

\* shlex.split(cmd): ok = FALSE stands for the ValueError it raises.
shlex_split(s) == Lex(s, 1, "", <<>>, FALSE, <<>>)

RECURSIVE preprocess_command(_)
\* Every \' and \" becomes its placeholder.
preprocess_command(s) ==
    IF Len(s) = 0 THEN <<>>
    ELSE IF Len(s) >= 2 /\ s[1] = BS /\ s[2] = SQ
    THEN <<SINGLE_QUOTE_PLACEHOLDER>> \o preprocess_command(Slice(s, 3, Len(s)))
    ELSE IF Len(s) >= 2 /\ s[1] = BS /\ s[2] = DQ
    THEN <<DOUBLE_QUOTE_PLACEHOLDER>> \o preprocess_command(Slice(s, 3, Len(s)))
    ELSE <<s[1]>> \o preprocess_command(Tail(s))

\* Every placeholder becomes the quote it stands for, in every argument.
postprocess_args(args) ==
    [k \in 1..Len(args) |->
        [j \in 1..Len(args[k]) |->
            IF args[k][j] = SINGLE_QUOTE_PLACEHOLDER THEN SQ
            ELSE IF args[k][j] = DOUBLE_QUOTE_PLACEHOLDER THEN DQ
            ELSE args[k][j]]]

\* custom_split_command(cmd): (args, success); the ValueError is caught here.
custom_split_command(s) ==
    LET r == shlex_split(preprocess_command(s)) IN
    IF r.ok THEN [ok |-> TRUE, args |-> postprocess_args(r.args)] ELSE TokFail

RECURSIVE Segments(_, _, _, _, _)
\* The stage strings of s from position i: q the open quote, cur the stage so far.
Segments(s, i, q, cur, out) ==
    IF i > Len(s) THEN Append(out, cur)
    ELSE LET c == s[i] IN
         IF q # ""
         THEN Segments(s, i + 1, IF c = q THEN "" ELSE q, Append(cur, c), out)
         ELSE IF c \in {SQ, DQ} THEN Segments(s, i + 1, c, Append(cur, c), out)
         ELSE IF c = "|" THEN Segments(s, i + 1, "", <<>>, Append(out, cur))
         ELSE Segments(s, i + 1, "", Append(cur, c), out)

\* parsing.split_by_pipe_op(cmd): split at the `|` outside quotes.
split_by_pipe_op(s) == Segments(s, 1, "", <<>>, <<>>)

\* ------------------------------------------------- variable interpolation

\* is_valid_variable_name: ^[a-zA-Z_]\w*$
is_valid_variable_name(name) ==
    /\ Len(name) >= 1
    /\ name[1] \in Letters
    /\ \A i \in 2..Len(name) : name[i] \in WordChars

\* The end of the match of \$\{([^}]+)\} that starts at i, or 0 when none does.
MatchEnd(s, i) ==
    IF i + 1 <= Len(s) /\ s[i] = "$" /\ s[i + 1] = "{"
    THEN LET closes == {j \in (i + 3)..Len(s) : s[j] = "}"} IN
         IF i + 2 <= Len(s) /\ s[i + 2] # "}" /\ closes # {}
         THEN CHOOSE j \in closes : \A k \in closes : j <= k
         ELSE 0
    ELSE 0

\* os.environ.get(name, "")
EnvGet(e, name) == IF name \in DOMAIN e THEN e[name] ELSE <<>>

ReplFail == [ok |-> FALSE, str |-> <<>>]

RECURSIVE ReplaceFrom(_, _, _, _, _)
\* The loop over the matches: i the scan position, last_end the end of the match
\* before, result what is emitted so far.
ReplaceFrom(s, e, i, last_end, result) ==
    IF i > Len(s) THEN [ok |-> TRUE, str |-> result \o Slice(s, last_end + 1, Len(s))]
    ELSE LET m == MatchEnd(s, i) IN
         IF m = 0 THEN ReplaceFrom(s, e, i + 1, last_end, result)
         ELSE LET name == Slice(s, i + 2, m - 1)
                  escaped == i > 1 /\ s[i - 1] = BS
              IN  IF escaped
                  THEN ReplaceFrom(s, e, m + 1, m,
                                   result \o Slice(s, last_end + 1, i - 2) \o Slice(s, i, m))
                  ELSE IF is_valid_variable_name(name)
                  THEN ReplaceFrom(s, e, m + 1, m,
                                   result \o Slice(s, last_end + 1, i - 1) \o EnvGet(e, name))
                  ELSE ReplFail

\* replace_variables going over its own result once more.
replace_variables_Twice(s, e) ==
    LET r == ReplaceFrom(s, e, 1, 0, <<>>) IN
    IF r.ok THEN ReplaceFrom(r.str, e, 1, 0, <<>>) ELSE r

\* replace_variables(cmd): (string, success)
replace_variables(s, e) == ReplaceFrom(s, e, 1, 0, <<>>)

\* ------------------------------------------------------------ file system

\* The words of the command lines.
echo == <<"e", "c", "h", "o">>
yes == <<"y", "e", "s">>
cat == <<"c", "a", "t">>
true == <<"t", "r", "u", "e">>
nosuch == <<"n", "o", "s", "u", "c", "h">>
noperm == <<"n", "o", "p", "e", "r", "m">>
badexec == <<"b", "a", "d">>
var == <<"v", "a", "r">>
cd == <<"c", "d">>
pwd == <<"p", "w", "d">>
which == <<"w", "h", "i", "c", "h">>
exit == <<"e", "x", "i", "t">>
sp == <<" ">>
bar == <<"|">>
HOME == <<"H", "O", "M", "E">>
PWD == <<"P", "W", "D">>
OLDPWD == <<"O", "L", "D", "P", "W", "D">>

\* The regular files the search path holds: os.path.isfile(potential_path).
PathFiles == {echo, yes, cat, true, noperm, badexec, pwd}
\* os.access(command_path, os.X_OK)
IsExecutable(name) == name \in PathFiles \ {noperm}
\* os.execvp raises OSError for a file the kernel cannot run.
ExecRaises(name) == name = badexec
\* What each program does once it runs: "echo" (and the pwd program of the
\* search path) writes MaxBytes bytes and exits,
\* "yes" writes until its output has no reader, "cat" copies its input to its
\* output until end of input, "true" exits at once.
ProgramOf(name) ==
    IF name \in {echo, pwd} THEN "echo" ELSE IF name = yes THEN "yes"
    ELSE IF name = cat THEN "cat" ELSE "true"

\* The directories, the plain files and the directories without search permission.
Dirs == {<<"/">>, <<"/", "t">>, <<"/", "h">>}
PlainFiles == {<<"/", "e">>}
NoAccessDirs == {<<"/", "r">>}
\* The home directory of the password database, for expanduser without HOME.
PwHome == <<"/", "h">>

\* os.path.expanduser(arg)
expanduser(arg, e) ==
    IF Len(arg) >= 1 /\ arg[1] = "~" /\ (Len(arg) = 1 \/ arg[2] = "/")
    THEN (IF HOME \in DOMAIN e THEN e[HOME] ELSE PwHome) \o Slice(arg, 2, Len(arg))
    ELSE arg

\* expand_path_in_args(args)
expand_path_in_args(args, e) == [k \in 1..Len(args) |-> expanduser(args[k], e)]

\* The resolution of execute_external_command: "ok", "not_found", "denied", or
\* "raise" for the IndexError of args[0] on an empty vector.  A name with a `/`
\* is a path; no program lies under a directory here.
Resolve(args) ==
    IF args = <<>> THEN "raise"
    ELSE LET name == args[1]
             found == IF \E k \in 1..Len(name) : name[k] = "/" THEN name \in PlainFiles
                      ELSE name \in PathFiles
         IN  IF ~found THEN "not_found"
             ELSE IF ~IsExecutable(name) THEN "denied"
             ELSE "ok"

\* ------------------------------------------------------------------ paths

RECURSIVE Components(_, _, _)
\* path.split("/") without the empty parts: cur the part so far.
Components(p, cur, out) ==
    IF Len(p) = 0 THEN (IF cur = <<>> THEN out ELSE Append(out, cur))
    ELSE IF p[1] = "/" THEN Components(Tail(p), <<>>, IF cur = <<>> THEN out ELSE Append(out, cur))
    ELSE Components(Tail(p), Append(cur, p[1]), out)

RECURSIVE Collapse(_, _)
\* os.path.normpath on the parts of an absolute path: `.` dropped, `..` pops.
Collapse(parts, out) ==
    IF Len(parts) = 0 THEN out
    ELSE IF parts[1] = <<".">> THEN Collapse(Tail(parts), out)
    ELSE IF parts[1] = <<".", ".">>
    THEN Collapse(Tail(parts), IF out = <<>> THEN out ELSE Slice(out, 1, Len(out) - 1))
    ELSE Collapse(Tail(parts), Append(out, parts[1]))

\* os.path.abspath(os.path.join(base, path)) for an absolute base.
abspath_join(base, path) ==
    LET joined == IF Len(path) >= 1 /\ path[1] = "/" THEN path ELSE base \o <<"/">> \o path
    IN  <<"/">> \o Join(Collapse(Components(joined, <<>>, <<>>), <<>>), <<"/">>)

\* os.chdir accepting every path.
chdir_AlwaysOk(path) == "ok"

\* os.chdir(path): "ok" or the exception it raises.
chdir(path) ==
    IF path \in Dirs THEN "ok"
    ELSE IF path \in PlainFiles THEN "NotADirectoryError"
    ELSE IF path \in NoAccessDirs THEN "PermissionError"
    ELSE "FileNotFoundError"

\* --------------------------------------------------------------- built-ins

\* e with e[name] = value
EnvSet(e, name, value) ==
    [n \in DOMAIN e \cup {name} |-> IF n = name THEN value ELSE e[n]]

\* handle_var_command up to the assignment: what the call comes to.
\*   "usage"   a message, nothing changes
\*   "raise"   an IndexError leaves the handler
\*   "caught"  the capture branch raised inside its try
\*   "set"     os.environ[name] = value
\*   "capture" execute_external_command(cmdline, capture_output=True) is called
handle_var_command(args) ==
    LET none == [k |-> "usage", name |-> <<>>, value |-> <<>>] IN
    IF Len(args) <= 1 THEN none
    ELSE LET a1 == args[2]
             dash == Len(a1) >= 1 /\ a1[1] = "-"
             sflag == a1 = <<"-", "s">>
             include_sflag == IF sflag THEN 1 ELSE 0
         IN  IF dash /\ ~sflag
             THEN IF Len(a1) < 2 THEN [none EXCEPT !.k = "raise"] ELSE none
             ELSE IF Len(args) - include_sflag > 3 THEN none
             ELSE IF sflag /\ Len(args) < 3 THEN [none EXCEPT !.k = "raise"]
             ELSE LET var_name == IF sflag THEN args[3] ELSE args[2] IN
                  IF ~is_valid_variable_name(var_name) THEN none
                  ELSE IF sflag
                  THEN IF Len(args) < 4 THEN [none EXCEPT !.k = "caught"]
                       ELSE LET t == shlex_split(args[4]) IN
                            IF ~t.ok \/ t.args = <<>> THEN [none EXCEPT !.k = "caught"]
                            ELSE [k |-> "capture", name |-> var_name, value |-> args[4]]
                  ELSE [k |-> "set", name |-> var_name,
                        value |-> Join(Slice(args, 3, Len(args)), sp)]

\* handle_cd_command: "usage", "raise" (KeyError: HOME), an exception of chdir that
\* the handler catches, or "ok" with the new directory.
handle_cd_command(args, e, lp) ==
    LET none == [k |-> "usage", dir |-> lp] IN
    IF Len(args) > 2 THEN none
    ELSE IF Len(args) <= 1 /\ HOME \notin DOMAIN e THEN [none EXCEPT !.k = "raise"]
    ELSE LET path0 == IF Len(args) > 1 THEN expanduser(args[2], e) ELSE e[HOME]
             path == IF path0 = <<"-">>
                     THEN (IF OLDPWD \in DOMAIN e THEN e[OLDPWD] ELSE lp)
                     ELSE path0
             new_logical_pwd == abspath_join(lp, path)
         IN  IF chdir(new_logical_pwd) = "ok" THEN [k |-> "ok", dir |-> new_logical_pwd]
             ELSE [k |-> chdir(new_logical_pwd), dir |-> lp]

\* handle_pwd_command: "usage" for an argument that is no flag or a flag letter
\* other than P, else "print".
handle_pwd_command(args) ==
    IF \E k \in 2..Len(args) :
            \/ Len(args[k]) = 0
            \/ args[k][1] # "-"
            \/ \E j \in 2..Len(args[k]) : args[k][j] # "P"
    THEN "usage" ELSE "print"

\* int(text) accepts an optional sign and digits.
IsInt(text) ==
    LET body == IF Len(text) >= 1 /\ text[1] \in {"-", "+"} THEN Tail(text) ELSE text
    IN  Len(body) >= 1 /\ \A k \in 1..Len(body) : body[k] \in Digits

DigitVal(c) == IF c = "0" THEN 0 ELSE IF c = "1" THEN 1 ELSE IF c = "2" THEN 2 ELSE 3

RECURSIVE NatOf(_, _)
NatOf(ds, acc) == IF Len(ds) = 0 THEN acc ELSE NatOf(Tail(ds), 10 * acc + DigitVal(ds[1]))

\* int(text) for a text IsInt accepts.
IntOf(text) ==
    IF text[1] = "-" THEN 0 - NatOf(Tail(text), 0)
    ELSE IF text[1] = "+" THEN NatOf(Tail(text), 0)
    ELSE NatOf(text, 0)

\* The exit status a process that calls sys.exit(code) ends with: the low
\* eight bits of the code.
ExitStatus(code) == code % 256

\* handle_exit_command exiting whatever its argument is.
handle_exit_command_NoIntCheck(args) ==
    [k |-> "exit", code |-> IF Len(args) >= 2 /\ IsInt(args[2]) THEN IntOf(args[2]) ELSE 0]

\* handle_exit_command: "usage" or "exit" with the code given to sys.exit.
handle_exit_command(args) ==
    IF Len(args) > 2 THEN [k |-> "usage", code |-> 0]
    ELSE IF Len(args) = 2
    THEN IF IsInt(args[2]) THEN [k |-> "exit", code |-> IntOf(args[2])]
         ELSE [k |-> "usage", code |-> 0]
    ELSE [k |-> "exit", code |-> 0]

\* ----------------------------------------------------------- run_command

\* The post-check looking at the first stage only.
HasEmptyStage_FirstOnly(cmds) == IsBlank(cmds[1])

\* The post-check of run_command on the stages the segmenter returned.
HasEmptyStage(cmds) == \E k \in 1..Len(cmds) : IsBlank(cmds[k])

command_map == {var, pwd, cd, which, exit}

\* Where run_shell and run_command send a line, with the argument vector.
Classify(l, e) ==
    LET as(kind, args) == [kind |-> kind, args |-> args] IN
    IF IsBlank(l) THEN as("blank", <<>>)
    ELSE IF HasPipeChar(l)
    THEN IF HasEmptyStage(split_by_pipe_op(l)) THEN as("pipe_syntax", <<>>)
         ELSE as("pipeline", <<>>)
    ELSE LET r == replace_variables(l, e) IN
         IF ~r.ok THEN as("bad_variable", <<>>)
         ELSE LET t == custom_split_command(r.str) IN
              IF ~t.ok THEN as("bad_quote", <<>>)
              ELSE IF t.args = <<>> THEN as("empty", <<>>)
              ELSE IF t.args[1] = var THEN as("var", t.args)
              ELSE IF t.args[1] = cd THEN as("cd", t.args)
              ELSE IF t.args[1] = exit THEN as("exit", t.args)
              ELSE IF t.args[1] \in command_map THEN as("print", t.args)
              ELSE as("external", t.args)

\* ------------------------------------------------------------ the inputs

\* The command lines a session may read.
SimpleLines ==
    { sp, echo, nosuch, noperm, badexec, yes, cat,
      echo \o sp \o <<SQ, "a">>,
      echo \o sp \o <<"$", "{", "1", "}">>,
      echo \o sp \o <<"$", "{", "X", "}">>,
      var, var \o sp \o <<"X">> \o sp \o <<"a">>, var \o sp \o <<"-">>,
      var \o sp \o <<"-", "s">>, var \o sp \o <<"-", "x">> \o sp \o <<"X">>,
      var \o sp \o <<"-", "s">> \o sp \o <<"X">> \o sp \o echo,
      var \o sp \o <<"-", "s">> \o sp \o <<"X">> \o sp \o nosuch,
      var \o sp \o <<"-", "s">> \o sp \o <<"X">> \o sp \o badexec,
      cd, cd \o sp \o <<"/", "t">>, cd \o sp \o <<"/", "n">>, cd \o sp \o <<"-">>,
      cd \o sp \o <<"/", "e">>, cd \o sp \o <<"/", "r">>,
      cd \o sp \o <<"a">> \o sp \o <<"b">>,
      exit, exit \o sp \o <<"3">>, exit \o sp \o <<"x">>, exit \o sp \o <<"1">> \o sp \o <<"2">>,
      exit \o sp \o <<"3", "0", "0">>, exit \o sp \o <<"-", "1">>,
      pwd, pwd \o sp \o <<"a">>, pwd \o sp \o <<"-", "x">>, pwd \o sp \o <<"-", "P">>,
      var \o sp \o <<"X">>,
      which \o sp \o echo }

PipeLines ==
    { echo \o sp \o bar \o sp \o cat,
      yes \o sp \o bar \o sp \o true,
      echo \o sp \o bar \o sp \o nosuch \o sp \o bar \o sp \o cat,
      true \o bar \o true \o bar \o cat,
      echo \o sp \o bar \o sp \o badexec,
      echo \o sp \o bar \o sp \o bar \o sp \o cat,
      bar \o sp \o echo,
      echo \o sp \o bar,
      echo \o sp \o bar \o sp \o <<SQ>> \o cat,
      echo \o sp \o <<"$", "{", "1", "}">> \o sp \o bar \o sp \o cat,
      echo \o sp \o <<DQ, "a", "|", "b", DQ>>,
      pwd \o sp \o bar \o sp \o cat,
      var \o sp \o <<"X">> \o sp \o <<DQ, "a", "|", "b", DQ>> }

Lines == SimpleLines \cup PipeLines

\* The environments the interpreter may inherit.
InitialEnvs == { <<>>, HOME :> <<"/", "h">>, OLDPWD :> <<"/", "h">> }
\* The directory the interpreter starts in: os.getcwd().
InitialDir == <<"/">>

\* The most stages a line has.
MaxStages ==
    CHOOSE n \in 1..8 :
        /\ \A l \in PipeLines : Len(split_by_pipe_op(l)) <= n
        /\ \E l \in PipeLines : Len(split_by_pipe_op(l)) = n

\* ------------------------------------------------------------- the state

VARIABLES
    pc,           \* where the interpreter is
    cycles,       \* lines read so far
    cmd,          \* the line of this cycle
    mode,         \* which path of run_command this cycle took
    env,          \* os.environ
    logical_pwd,  \* the global logical_pwd
    cwd,          \* the current directory of the interpreter process
    exit_code,    \* the code the interpreter ended with
    errs,         \* the messages of this cycle on standard error
    commands,     \* execute_pipeline: the stage strings
    pipe_fds,     \* execute_pipeline: the (read_fd, write_fd) pairs
    pids,         \* execute_pipeline: the pids appended
    idx,          \* the index of the loop the interpreter is in
    fds,          \* the interpreter's open descriptors: number -> what it is
    procs,        \* every child process
    pipes,        \* the bytes each pipe holds
    io,           \* per stage: the bytes its program wrote and read
    forks,        \* the children the interpreter forked this cycle
    waits,        \* the children whose waitpid returned this cycle
    npipes,       \* the pipes the interpreter created this cycle
    captured,     \* the capture mode's output so far
    interrupted,  \* whether a KeyboardInterrupt ended this cycle
    prev_dir,     \* logical_pwd before the most recent successful cd (<<>>: none yet)
    interp        \* run_command: what replace_variables(cmd) returned this cycle

vars == <<pc, cycles, cmd, mode, env, logical_pwd, cwd, exit_code, errs, commands, pipe_fds,
          pids, idx, fds, procs, pipes, io, forks, waits, npipes, captured, interrupted,
          prev_dir, interp>>

shellVars == <<env, logical_pwd, cwd, exit_code, prev_dir>>
pipelineVars == <<commands, pipe_fds, pids, idx>>

Stage(k) == <<"stage", k>>
Prog(k) == <<"prog", k>>
Stages == 0..(MaxStages - 1)
Pids == {Stage(k) : k \in Stages} \cup {Prog(k) : k \in Stages}

Tty == <<"tty", 0>>
ReadEnd(j) == <<"r", j>>
WriteEnd(j) == <<"w", j>>
NoFds == [n \in {} |-> Tty]
\* sys.stdin.fileno(), sys.stdout.fileno() and standard error.
StdFds == [n \in 0..2 |-> Tty]

NoProc == [st |-> "none", fds |-> NoFds, prog |-> "", hold |-> "", ret |-> FALSE]
NoIO == [out |-> <<>>, in |-> <<>>, nout |-> 0]
\* No call of replace_variables in this cycle.
NoInterp == [ok |-> TRUE, str |-> <<>>]

Init ==
    /\ pc = "prompt"
    /\ cycles = 0
    /\ cmd = <<>>
    /\ mode = "none"
    /\ env \in InitialEnvs
    /\ logical_pwd = InitialDir
    /\ cwd = InitialDir
    /\ exit_code = 0
    /\ errs = {}
    /\ commands = <<>>
    /\ pipe_fds = <<>>
    /\ pids = <<>>
    /\ idx = 0
    /\ fds = StdFds
    /\ procs = [p \in Pids |-> NoProc]
    /\ pipes = [j \in Stages |-> <<>>]
    /\ io = [k \in Stages |-> NoIO]
    /\ forks = <<>>
    /\ waits = <<>>
    /\ npipes = 0
    /\ captured = <<>>
    /\ interrupted = FALSE
    /\ prev_dir = <<>>
    /\ interp = NoInterp

\* ------------------------------------------------------------ descriptors

\* os.close(fd) of an open descriptor
Close(t, fd) == [n \in DOMAIN t \ {fd} |-> t[n]]
\* os.dup2(a, b)
Dup2(t, a, b) == [n \in DOMAIN t \cup {b} |-> IF n = b THEN t[a] ELSE t[n]]
\* The kernel gives the lowest number that is free.
LowestFree(t) ==
    CHOOSE n \in 0..Cardinality(DOMAIN t) :
        n \notin DOMAIN t /\ \A m \in 0..(n - 1) : m \in DOMAIN t
\* os.pipe() for pipe j: the table after it and the pair it returns.
OsPipe(t, j) ==
    LET r == LowestFree(t)
        t1 == [n \in DOMAIN t \cup {r} |-> IF n = r THEN ReadEnd(j) ELSE t[n]]
        w == LowestFree(t1)
    IN  [fds |-> [n \in DOMAIN t1 \cup {w} |-> IF n = w THEN WriteEnd(j) ELSE t1[n]],
         pair |-> <<r, w>>]
\* What execvp keeps: os.pipe() descriptors are not inheritable, 0, 1 and 2 are.
ExecKeep(t) == [n \in DOMAIN t \cap 0..2 |-> t[n]]

\* A descriptor an earlier cycle left open is an end of a pipe of that cycle,
\* not of a pipe of this one.
Stale(t) == [n \in DOMAIN t |-> IF t[n][1] \in {"r", "w"} THEN <<"old", 0>> ELSE t[n]]

\* The processes that hold an end of a pipe open; 0 stands for the interpreter.
Holders(end) ==
    {p \in Pids : end \in Range(procs[p].fds)}
        \cup (IF end \in Range(fds) THEN {<<"mysh", 0>>} ELSE {})

\* ------------------------------------------------------------ the read loop

Alive == pc \notin {"crashed", "exited"}

\* run_shell is at input(): a new cycle starts.  A session goes on only once
\* every child of the cycle before is gone.
AtPrompt(l) ==
    /\ pc = "prompt"
    /\ cycles < MaxCycles
    /\ \A p \in Pids : procs[p].st = "none"
    /\ cycles' = cycles + 1
    /\ cmd' = l
    /\ interrupted' = FALSE
    /\ interp' = IF IsBlank(l) \/ HasPipeChar(l) THEN NoInterp ELSE replace_variables(l, env)

ResetPipeline == commands' = <<>> /\ pipe_fds' = <<>> /\ pids' = <<>> /\ idx' = 0
ResetTrace == forks' = <<>> /\ waits' = <<>> /\ npipes' = 0 /\ captured' = <<>>
ResetProcs == pipes' = [j \in Stages |-> <<>>] /\ io' = [k \in Stages |-> NoIO]

\* A cycle that ends inside the interpreter with these messages.
Local(m, msgs) ==
    /\ pc' = "prompt"
    /\ mode' = m
    /\ errs' = msgs
    /\ ResetPipeline /\ ResetTrace /\ ResetProcs
    /\ fds' = Stale(fds)
    /\ UNCHANGED procs

\* An exception no handler of run_shell catches: the interpreter process ends.
Raise(m, msgs) ==
    /\ pc' = "crashed"
    /\ mode' = m
    /\ errs' = msgs \cup {"Traceback"}
    /\ exit_code' = 1
    /\ fds' = NoFds

\* A blank line, or a line without a word: `continue`, `return`.
SkipLine ==
    \E l \in Lines :
        /\ AtPrompt(l)
        /\ Classify(l, env).kind \in {"blank", "empty"}
        /\ Local("none", {})
        /\ UNCHANGED shellVars

\* run_command, the pipeline branch: an empty stage rejects the line.
RejectPipeline ==
    \E l \in Lines :
        /\ AtPrompt(l)
        /\ Classify(l, env).kind = "pipe_syntax"
        /\ pc' = "prompt"
        /\ mode' = "pipeline"
        /\ errs' = {"mysh: syntax error: expected command after pipe"}
        /\ commands' = split_by_pipe_op(l)
        /\ pipe_fds' = <<>> /\ pids' = <<>> /\ idx' = 0
        /\ ResetTrace /\ ResetProcs
        /\ fds' = Stale(fds)
        /\ UNCHANGED <<procs, shellVars>>

\* run_command, the pipeline branch: execute_pipeline(commands) is entered.
StartPipeline ==
    \E l \in Lines :
        /\ AtPrompt(l)
        /\ Classify(l, env).kind = "pipeline"
        /\ pc' = "create_pipes"
        /\ mode' = "pipeline"
        /\ errs' = {}
        /\ commands' = split_by_pipe_op(l)
        /\ pipe_fds' = <<>> /\ pids' = <<>> /\ idx' = 0
        /\ ResetTrace /\ ResetProcs
        /\ fds' = Stale(fds)
        /\ UNCHANGED <<procs, shellVars>>

\* run_command: replace_variables or custom_split_command failed.
SyntaxError ==
    \E l \in Lines :
        /\ AtPrompt(l)
        /\ \/ /\ Classify(l, env).kind = "bad_variable"
              /\ Local("single", {"mysh: syntax error: invalid characters for variable"})
           \/ /\ Classify(l, env).kind = "bad_quote"
              /\ Local("single", {"mysh: syntax error: unterminated quote"})
        /\ UNCHANGED shellVars

\* pwd and which print and change nothing.
RunPrint ==
    \E l \in Lines :
        /\ AtPrompt(l)
        /\ Classify(l, env).kind = "print"
        /\ IF Classify(l, env).args[1] = pwd /\ handle_pwd_command(Classify(l, env).args) = "usage"
           THEN Local("builtin", {"pwd: usage"})
           ELSE Local("builtin", {})
        /\ UNCHANGED shellVars

\* var without -s, and every var that ends before a command is launched.
RunVar ==
    \E l \in Lines :
        /\ AtPrompt(l)
        /\ Classify(l, env).kind = "var"
        /\ LET r == handle_var_command(Classify(l, env).args) IN
           \/ /\ r.k = "usage"
              /\ Local("builtin", {"var: usage"})
              /\ UNCHANGED shellVars
           \/ /\ r.k = "caught"
              /\ Local("builtin", {"var: failed to execute command"})
              /\ UNCHANGED shellVars
           \/ /\ r.k = "set"
              /\ Local("builtin", {})
              /\ env' = EnvSet(env, r.name, r.value)
              /\ UNCHANGED <<logical_pwd, cwd, exit_code, prev_dir>>
           \/ /\ r.k = "raise"
              /\ Raise("builtin", {"IndexError"})
              /\ ResetPipeline /\ ResetTrace /\ ResetProcs
              /\ UNCHANGED <<procs, env, logical_pwd, cwd, prev_dir>>

\* cd
RunCd ==
    \E l \in Lines :
        /\ AtPrompt(l)
        /\ Classify(l, env).kind = "cd"
        /\ LET r == handle_cd_command(Classify(l, env).args, env, logical_pwd) IN
           \/ /\ r.k = "ok"
              /\ Local("builtin", {})
              /\ cwd' = r.dir
              /\ logical_pwd' = r.dir
              /\ env' = EnvSet(env, PWD, r.dir)
              /\ prev_dir' = logical_pwd
              /\ UNCHANGED exit_code
           \/ /\ r.k = "usage"
              /\ Local("builtin", {"cd: too many arguments"})
              /\ UNCHANGED shellVars
           \/ /\ r.k \in {"FileNotFoundError", "NotADirectoryError", "PermissionError"}
              /\ Local("builtin", {r.k})
              /\ UNCHANGED shellVars
           \/ /\ r.k = "raise"
              /\ Raise("builtin", {"KeyError: HOME"})
              /\ ResetPipeline /\ ResetTrace /\ ResetProcs
              /\ UNCHANGED <<procs, env, logical_pwd, cwd, prev_dir>>

\* exit
RunExit ==
    \E l \in Lines :
        /\ AtPrompt(l)
        /\ Classify(l, env).kind = "exit"
        /\ LET r == handle_exit_command(Classify(l, env).args) IN
           \/ /\ r.k = "usage"
              /\ Local("builtin", {"exit: usage"})
              /\ UNCHANGED shellVars
           \/ /\ r.k = "exit"
              /\ pc' = "exited"
              /\ mode' = "builtin"
              /\ errs' = {}
              /\ exit_code' = ExitStatus(r.code)
              /\ fds' = NoFds
              /\ ResetPipeline /\ ResetTrace /\ ResetProcs
              /\ UNCHANGED <<procs, env, logical_pwd, cwd, prev_dir>>

\* input() raises EOFError: the loop breaks and main returns.
EndOfInput ==
    /\ pc = "prompt"
    /\ pc' = "exited"
    /\ exit_code' = 0
    /\ fds' = NoFds
    /\ UNCHANGED <<cycles, cmd, mode, env, logical_pwd, cwd, errs, pipelineVars, procs, pipes,
                   io, forks, waits, npipes, captured, interrupted, prev_dir, interp>>

\* A child right after os.fork(): a copy of its parent's descriptor table.
Forked(t) == [NoProc EXCEPT !.st = "preexec", !.fds = t]

ResolveMessage(r) ==
    IF r = "not_found" THEN "mysh: command not found"
    ELSE IF r = "denied" THEN "mysh: permission denied"
    ELSE "IndexError"

\* ------------------------------------------- execute_external_command, alone

\* run_command: the line is no built-in.  The command does not resolve, or fork
\* raises (caught at `except Exception`), or the child is forked and the
\* interpreter goes to waitpid.
RunExternal ==
    \E l \in Lines :
        /\ AtPrompt(l)
        /\ Classify(l, env).kind = "external"
        /\ LET args == expand_path_in_args(Classify(l, env).args, env) IN
           \/ /\ Resolve(args) # "ok"
              /\ Local("single", {ResolveMessage(Resolve(args))})
           \/ /\ Resolve(args) = "ok"
              /\ Local("single", {"Error executing command"})
           \/ /\ Resolve(args) = "ok"
              /\ pc' = "ext_wait"
              /\ mode' = "single"
              /\ errs' = {}
              /\ procs' = [procs EXCEPT ![Prog(0)] = Forked(Stale(fds))]
              /\ forks' = <<Prog(0)>>
              /\ waits' = <<>> /\ npipes' = 0 /\ captured' = <<>>
              /\ ResetPipeline /\ ResetProcs
              /\ fds' = Stale(fds)
        /\ UNCHANGED shellVars

\* os.waitpid(child_pid, 0) returns: the child has ended.
ExtWait ==
    /\ pc = "ext_wait"
    /\ procs[Prog(0)].st = "zombie"
    /\ pc' = "prompt"
    /\ procs' = [procs EXCEPT ![Prog(0)] = NoProc]
    /\ waits' = Append(waits, Prog(0))
    /\ UNCHANGED <<cycles, cmd, mode, shellVars, errs, pipelineVars, fds, pipes, io, forks,
                   npipes, captured, interrupted, interp>>

\* ------------------------------------------------ var -s: the capture mode

\* The command line and the variable of the capture this cycle runs.
CaptureOf(l, e) == handle_var_command(Classify(l, e).args)

\* handle_var_command with -s calls execute_external_command(..., True): the
\* command does not resolve (None is assigned: TypeError, caught), or os.pipe
\* raises (caught twice), or the child is forked and the write end closed.
StartCapture ==
    \E l \in Lines :
        /\ AtPrompt(l)
        /\ Classify(l, env).kind = "var"
        /\ CaptureOf(l, env).k = "capture"
        /\ LET args == expand_path_in_args(shlex_split(CaptureOf(l, env).value).args, env)
               p == OsPipe(Stale(fds), 0)
           IN
           \/ /\ Resolve(args) # "ok"
              /\ Local("capture", {ResolveMessage(Resolve(args)),
                                   "var: failed to execute command"})
           \/ /\ Resolve(args) = "ok"
              /\ Local("capture", {"Error executing command",
                                   "var: failed to execute command"})
           \/ /\ Resolve(args) = "ok"
              /\ pc' = "cap_read"
              /\ mode' = "capture"
              /\ errs' = {}
              /\ procs' = [procs EXCEPT ![Prog(0)] = Forked(p.fds)]
              /\ fds' = Close(p.fds, p.pair[2])
              /\ pipe_fds' = <<p.pair>>
              /\ commands' = <<>> /\ pids' = <<>> /\ idx' = 0
              /\ forks' = <<Prog(0)>>
              /\ waits' = <<>> /\ npipes' = 1 /\ captured' = <<>>
              /\ ResetProcs
        /\ UNCHANGED shellVars

\* os.fdopen(read_fd).read(): one more byte of the child's output.
CaptureRead ==
    /\ pc = "cap_read"
    /\ pipes[0] # <<>>
    /\ captured' = Append(captured, Head(pipes[0]))
    /\ pipes' = [pipes EXCEPT ![0] = Tail(pipes[0])]
    /\ UNCHANGED <<pc, cycles, cmd, mode, shellVars, errs, pipelineVars, fds, procs, io, forks,
                   waits, npipes, interrupted, interp>>

\* read() returns at end of file: no process holds the write end any more.  The
\* file object is dropped, which closes read_fd.
CaptureEOF ==
    /\ pc = "cap_read"
    /\ pipes[0] = <<>>
    /\ Holders(WriteEnd(0)) = {}
    /\ pc' = "cap_wait"
    /\ fds' = Close(fds, pipe_fds[1][1])
    /\ UNCHANGED <<cycles, cmd, mode, shellVars, errs, pipelineVars, procs, pipes, io, forks,
                   waits, npipes, captured, interrupted, interp>>

\* os.waitpid returns, the output is returned and handle_var_command assigns it.
CaptureWait ==
    /\ pc = "cap_wait"
    /\ procs[Prog(0)].st = "zombie"
    /\ pc' = "prompt"
    /\ procs' = [procs EXCEPT ![Prog(0)] = NoProc]
    /\ waits' = Append(waits, Prog(0))
    /\ env' = EnvSet(env, CaptureOf(cmd, env).name, captured)
    /\ UNCHANGED <<cycles, cmd, mode, logical_pwd, cwd, exit_code, errs, pipelineVars, fds,
                   pipes, io, forks, npipes, captured, interrupted, prev_dir, interp>>

\* ------------------------------------------------------- execute_pipeline

NumCommands == Len(commands)

RECURSIVE MakePipes(_, _, _, _)
\* The loop of os.pipe(): pipes j..n-1 on table t, acc the pairs so far.
MakePipes(t, j, n, acc) ==
    IF j >= n THEN [fds |-> t, pairs |-> acc]
    ELSE MakePipes(OsPipe(t, j).fds, j + 1, n, Append(acc, OsPipe(t, j).pair))

\* `for _ in range(num_commands - 1): pipe_fds.append(os.pipe())`
CreatePipes ==
    /\ pc = "create_pipes"
    /\ LET r == MakePipes(fds, 0, NumCommands - 1, <<>>) IN
       /\ fds' = r.fds
       /\ pipe_fds' = r.pairs
       /\ npipes' = Len(r.pairs)
    /\ pc' = "fork"
    /\ idx' = 0
    /\ UNCHANGED <<cycles, cmd, mode, shellVars, errs, commands, pids, procs, pipes, io, forks,
                   waits, captured, interrupted, interp>>

\* os.pipe() raises OSError at pipe j: nothing in execute_pipeline, run_command
\* or run_shell catches it.
CreatePipesRaises ==
    /\ pc = "create_pipes"
    /\ \E j \in 0..(NumCommands - 2) :
        /\ npipes' = j
        /\ pipe_fds' = MakePipes(fds, 0, j, <<>>).pairs
    /\ Raise(mode, errs \cup {"OSError: pipe"})
    /\ UNCHANGED <<cycles, cmd, env, logical_pwd, cwd, commands, pids, idx, procs, pipes, io,
                   forks, waits, captured, interrupted, prev_dir, interp>>

\* The descriptors the parent closes after forking stage i.
ParentCloses(t, i) ==
    LET t1 == IF i > 0 THEN Close(t, pipe_fds[i][1]) ELSE t
    IN  IF i < NumCommands - 1 THEN Close(t1, pipe_fds[i + 1][2]) ELSE t1

\* One turn of the loop over the stages, in the parent: shlex.split, os.fork,
\* pids.append and the two closes.
ForkStage ==
    /\ pc = "fork"
    /\ shlex_split(commands[idx + 1]).ok
    /\ procs' = [procs EXCEPT ![Stage(idx)] = [Forked(fds) EXCEPT !.st = "forked"]]
    /\ pids' = Append(pids, Stage(idx))
    /\ forks' = Append(forks, Stage(idx))
    /\ fds' = ParentCloses(fds, idx)
    /\ idx' = idx + 1
    /\ pc' = IF idx + 1 = NumCommands THEN "close_fds" ELSE "fork"
    /\ UNCHANGED <<cycles, cmd, mode, shellVars, errs, commands, pipe_fds, pipes, io, waits,
                   npipes, captured, interrupted, interp>>

\* shlex.split(cmd) raises ValueError: nothing catches it.
ForkStageSplitRaises ==
    /\ pc = "fork"
    /\ ~shlex_split(commands[idx + 1]).ok
    /\ Raise(mode, errs \cup {"ValueError: No closing quotation"})
    /\ UNCHANGED <<cycles, cmd, env, logical_pwd, cwd, pipelineVars, procs, pipes, io, forks,
                   waits, npipes, captured, interrupted, prev_dir, interp>>

\* os.fork() raises OSError (it never returns a negative pid): nothing catches it.
ForkStageForkRaises ==
    /\ pc = "fork"
    /\ shlex_split(commands[idx + 1]).ok
    /\ Raise(mode, errs \cup {"OSError: fork"})
    /\ UNCHANGED <<cycles, cmd, env, logical_pwd, cwd, pipelineVars, procs, pipes, io, forks,
                   waits, npipes, captured, interrupted, prev_dir, interp>>

RECURSIVE CloseAll(_, _)
\* The loop that closes every pair again; an OSError of either close skips the
\* rest of the pair.
CloseAll(t, pairs) ==
    IF Len(pairs) = 0 THEN t
    ELSE LET r == pairs[1][1]
             w == pairs[1][2]
         IN  IF r \notin DOMAIN t THEN CloseAll(t, Tail(pairs))
             ELSE IF w \notin DOMAIN t THEN CloseAll(Close(t, r), Tail(pairs))
             ELSE CloseAll(Close(Close(t, r), w), Tail(pairs))

\* `for read_fd, write_fd in pipe_fds: ...`
CloseParentFds ==
    /\ pc = "close_fds"
    /\ fds' = CloseAll(fds, pipe_fds)
    /\ pc' = "wait"
    /\ idx' = 0
    /\ UNCHANGED <<cycles, cmd, mode, shellVars, errs, commands, pipe_fds, pids, procs, pipes,
                   io, forks, waits, npipes, captured, interrupted, interp>>

\* `for pid in pids: os.waitpid(pid, 0)`: the wait for pids[idx] returns.
WaitStage ==
    /\ pc = "wait"
    /\ idx < Len(pids)
    /\ procs[pids[idx + 1]].st = "zombie"
    /\ procs' = [procs EXCEPT ![pids[idx + 1]] = NoProc]
    /\ waits' = Append(waits, pids[idx + 1])
    /\ idx' = idx + 1
    /\ pc' = IF idx + 1 = Len(pids) THEN "prompt" ELSE "wait"
    /\ UNCHANGED <<cycles, cmd, mode, shellVars, errs, commands, pipe_fds, pids, fds, pipes, io,
                   forks, npipes, captured, interrupted, interp>>

\* The positions in which the interpreter runs a command.
Busy == {"create_pipes", "fork", "close_fds", "wait", "ext_wait", "cap_read", "cap_wait"}

\* SIGINT reaches the interpreter: KeyboardInterrupt unwinds to run_shell, which
\* prints a line and continues with the next input().
KeyboardInterrupt ==
    /\ pc \in Busy
    /\ pc' = "prompt"
    /\ interrupted' = TRUE
    /\ UNCHANGED <<cycles, cmd, mode, shellVars, errs, pipelineVars, fds, procs, pipes, io,
                   forks, waits, npipes, captured, interp>>

\* ------------------------------------------------------ the stage children

\* The argument vector execute_external_command runs for stage k.
ArgsOf(k) ==
    expand_path_in_args(
        IF mode = "pipeline" THEN shlex_split(commands[k + 1]).args
        ELSE IF mode = "capture" THEN shlex_split(CaptureOf(cmd, env).value).args
        ELSE Classify(cmd, env).args,
        env)

\* The rebinding without the dup2 onto standard input.
Rebind_StdoutOnly(t, i) ==
    IF i < NumCommands - 1 THEN Dup2(t, pipe_fds[i + 1][2], 1) ELSE t

\* The two os.dup2 of stage child i on its table t.
Rebind(t, i) ==
    LET t1 == IF i > 0 THEN Dup2(t, pipe_fds[i][1], 0) ELSE t
    IN  IF i < NumCommands - 1 THEN Dup2(t1, pipe_fds[i + 1][2], 1) ELSE t1

\* A process ends: the kernel closes what it holds.
Ended(rec) == [rec EXCEPT !.st = "zombie", !.fds = NoFds, !.hold = ""]

\* The child of execute_pipeline for stage k: the two dup2, then
\* execute_external_command(args): the command does not resolve and the child
\* goes on to sys.exit(0), or it forks the process that will run the program
\* and waits for it.
StageChildRun(k) ==
    /\ procs[Stage(k)].st = "forked"
    /\ LET t == Rebind(procs[Stage(k)].fds, k) IN
       \/ /\ Resolve(ArgsOf(k)) # "ok"
          /\ errs' = errs \cup {ResolveMessage(Resolve(ArgsOf(k)))}
          /\ procs' = [procs EXCEPT ![Stage(k)] = Ended(@)]
       \/ /\ Resolve(ArgsOf(k)) = "ok"
          /\ errs' = errs
          /\ procs' = [procs EXCEPT ![Stage(k)] = [@ EXCEPT !.st = "waiting", !.fds = t],
                                    ![Prog(k)] = Forked(t)]
    /\ UNCHANGED <<pc, cycles, cmd, mode, shellVars, pipelineVars, fds, pipes, io, forks, waits,
                   npipes, captured, interrupted, interp>>

\* os.fork() raises in the stage child: caught at `except Exception`, then
\* sys.exit(0).
StageChildForkRaises(k) ==
    /\ procs[Stage(k)].st = "forked"
    /\ Resolve(ArgsOf(k)) = "ok"
    /\ errs' = errs \cup {"Error executing command"}
    /\ procs' = [procs EXCEPT ![Stage(k)] = Ended(@)]
    /\ UNCHANGED <<pc, cycles, cmd, mode, shellVars, pipelineVars, fds, pipes, io, forks, waits,
                   npipes, captured, interrupted, interp>>

\* os.waitpid(child_pid, 0) returns in the stage child, which returns from
\* execute_external_command and calls sys.exit(0).
StageChildExit(k) ==
    /\ procs[Stage(k)].st = "waiting"
    /\ procs[Prog(k)].st = "zombie"
    /\ procs' = [procs EXCEPT ![Stage(k)] = Ended(@), ![Prog(k)] = NoProc]
    /\ UNCHANGED <<pc, cycles, cmd, mode, shellVars, errs, pipelineVars, fds, pipes, io, forks,
                   waits, npipes, captured, interrupted, interp>>

\* ----------------------------------------- the child of the Process Launcher

\* What the child holds when it calls execvp: in capture mode it has closed
\* read_fd, bound standard output to write_fd and closed write_fd.
BeforeExec(t) ==
    IF mode = "capture"
    THEN Close(Close(Dup2(t, pipe_fds[1][2], 1), pipe_fds[1][1]), pipe_fds[1][2])
    ELSE t

\* os.execvp(args[0], args) replaces the image: the program runs.
Exec(k) ==
    /\ procs[Prog(k)].st = "preexec"
    /\ ~ExecRaises(ArgsOf(k)[1])
    /\ procs' = [procs EXCEPT ![Prog(k)] =
                    [@ EXCEPT !.st = "running", !.fds = ExecKeep(BeforeExec(@)),
                              !.prog = ProgramOf(ArgsOf(k)[1])]]
    /\ UNCHANGED <<pc, cycles, cmd, mode, shellVars, errs, pipelineVars, fds, pipes, io, forks,
                   waits, npipes, captured, interrupted, interp>>

\* os.execvp raises OSError in the child: `except Exception` catches it and
\* execute_external_command returns in the child.  Under execute_pipeline the
\* caller goes on to sys.exit(0); under run_command and handle_var_command the
\* child returns to run_shell and is at input().
ExecFails(k) ==
    /\ procs[Prog(k)].st = "preexec"
    /\ ExecRaises(ArgsOf(k)[1])
    /\ errs' = errs \cup {"Error executing command"}
    /\ procs' = [procs EXCEPT ![Prog(k)] =
                    IF mode = "pipeline" THEN [Ended(@) EXCEPT !.ret = TRUE]
                    ELSE [@ EXCEPT !.st = "readloop", !.fds = BeforeExec(@), !.ret = TRUE]]
    /\ UNCHANGED <<pc, cycles, cmd, mode, shellVars, pipelineVars, fds, pipes, io, forks, waits,
                   npipes, captured, interrupted, interp>>

\* The read loop a child runs: input(prompt) writes the prompt to standard
\* output, which in capture mode is the capture pipe, and the loop ends (end of
\* input, exit).
ChildReadLoopEnds(k) ==
    /\ procs[Prog(k)].st = "readloop"
    /\ procs' = [procs EXCEPT ![Prog(k)] = Ended(@)]
    /\ pipes' = IF mode = "capture" /\ Len(pipes[0]) < PipeCap
                THEN [pipes EXCEPT ![0] = Append(@, ">")]
                ELSE pipes
    /\ UNCHANGED <<pc, cycles, cmd, mode, shellVars, errs, pipelineVars, fds, io, forks,
                   waits, npipes, captured, interrupted, interp>>

\* ------------------------------------------------------------ the programs

\* The k-th byte a program writes.
ByteOf(n) == <<"1", "2", "3", "4", "5", "6", "7", "8", "9">>[n]

\* A log keeps the first MaxBytes bytes.
Logged(log, b) == IF Len(log) < MaxBytes THEN Append(log, b) ELSE log

Running(k) == procs[Prog(k)].st = "running"
Stdin(k) == procs[Prog(k)].fds[0]
Stdout(k) == procs[Prog(k)].fds[1]

\* The program has a byte to write.
WantsWrite(k) ==
    \/ procs[Prog(k)].prog = "echo" /\ io[k].nout < MaxBytes
    \/ procs[Prog(k)].prog = "yes"
    \/ procs[Prog(k)].prog = "cat" /\ procs[Prog(k)].hold # ""

OutByte(k) ==
    IF procs[Prog(k)].prog = "cat" THEN procs[Prog(k)].hold
    ELSE ByteOf(Min(io[k].nout + 1, MaxBytes + 1))

\* write(1, byte): to the terminal, or to a pipe that has room and a reader.
ProgWrite(k) ==
    /\ Running(k)
    /\ WantsWrite(k)
    /\ \/ /\ Stdout(k) = Tty
          /\ pipes' = pipes
       \/ /\ Stdout(k)[1] = "w"
          /\ Holders(ReadEnd(Stdout(k)[2])) # {}
          /\ Len(pipes[Stdout(k)[2]]) < PipeCap
          /\ pipes' = [pipes EXCEPT ![Stdout(k)[2]] = Append(@, OutByte(k))]
    /\ io' = [io EXCEPT ![k] = [@ EXCEPT !.out = Logged(@, OutByte(k)),
                                         !.nout = Min(@ + 1, MaxBytes + 1)]]
    /\ procs' = [procs EXCEPT ![Prog(k)] = [@ EXCEPT !.hold = ""]]
    /\ UNCHANGED <<pc, cycles, cmd, mode, shellVars, errs, pipelineVars, fds, forks, waits,
                   npipes, captured, interrupted, interp>>

\* write(1, byte) to a pipe no process reads: SIGPIPE ends the program.
ProgSigpipe(k) ==
    /\ Running(k)
    /\ WantsWrite(k)
    /\ Stdout(k)[1] = "w"
    /\ Holders(ReadEnd(Stdout(k)[2])) = {}
    /\ procs' = [procs EXCEPT ![Prog(k)] = Ended(@)]
    /\ UNCHANGED <<pc, cycles, cmd, mode, shellVars, errs, pipelineVars, fds, pipes, io, forks,
                   waits, npipes, captured, interrupted, interp>>

\* cat: read(0) returns a byte of the pipe.
ProgRead(k) ==
    /\ Running(k)
    /\ procs[Prog(k)].prog = "cat"
    /\ procs[Prog(k)].hold = ""
    /\ Stdin(k)[1] = "r"
    /\ pipes[Stdin(k)[2]] # <<>>
    /\ procs' = [procs EXCEPT ![Prog(k)] = [@ EXCEPT !.hold = Head(pipes[Stdin(k)[2]])]]
    /\ pipes' = [pipes EXCEPT ![Stdin(k)[2]] = Tail(@)]
    /\ io' = [io EXCEPT ![k] = [@ EXCEPT !.in = Logged(@, Head(pipes[Stdin(k)[2]]))]]
    /\ UNCHANGED <<pc, cycles, cmd, mode, shellVars, errs, pipelineVars, fds, forks, waits,
                   npipes, captured, interrupted, interp>>

\* cat: read(0) returns end of file (an empty pipe no process writes, or the
\* terminal's end of input), and cat exits.
ProgEOF(k) ==
    /\ Running(k)
    /\ procs[Prog(k)].prog = "cat"
    /\ procs[Prog(k)].hold = ""
    /\ \/ Stdin(k) = Tty
       \/ /\ Stdin(k)[1] = "r"
          /\ pipes[Stdin(k)[2]] = <<>>
          /\ Holders(WriteEnd(Stdin(k)[2])) = {}
    /\ procs' = [procs EXCEPT ![Prog(k)] = Ended(@)]
    /\ UNCHANGED <<pc, cycles, cmd, mode, shellVars, errs, pipelineVars, fds, pipes, io, forks,
                   waits, npipes, captured, interrupted, interp>>

\* true, and echo after its last byte: the program exits.
ProgExit(k) ==
    /\ Running(k)
    /\ \/ procs[Prog(k)].prog = "true"
       \/ procs[Prog(k)].prog = "echo" /\ io[k].nout = MaxBytes
    /\ procs' = [procs EXCEPT ![Prog(k)] = Ended(@)]
    /\ UNCHANGED <<pc, cycles, cmd, mode, shellVars, errs, pipelineVars, fds, pipes, io, forks,
                   waits, npipes, captured, interrupted, interp>>

\* ------------------------------------------------------- the specification

Interpreter ==
    \/ SkipLine \/ RejectPipeline \/ StartPipeline \/ SyntaxError \/ RunPrint \/ RunVar
    \/ RunCd \/ RunExit \/ EndOfInput \/ RunExternal \/ ExtWait
    \/ StartCapture \/ CaptureRead \/ CaptureEOF \/ CaptureWait
    \/ CreatePipes \/ CreatePipesRaises \/ ForkStage \/ ForkStageSplitRaises
    \/ ForkStageForkRaises \/ CloseParentFds \/ WaitStage \/ KeyboardInterrupt

Children ==
    \E k \in Stages :
        \/ StageChildRun(k) \/ StageChildForkRaises(k) \/ StageChildExit(k)
        \/ Exec(k) \/ ExecFails(k) \/ ChildReadLoopEnds(k)
        \/ ProgWrite(k) \/ ProgSigpipe(k) \/ ProgRead(k) \/ ProgEOF(k) \/ ProgExit(k)

Next == Interpreter \/ Children

Spec == Init /\ [][Next]_vars

\* ------------------------------------------- replace_variables on its own

\* The text ${NAME}.
Reference(name) == <<"$", "{">> \o name \o <<"}">>

\* The names tried: a plain one, one starting with a digit, one with a letter
\* outside ASCII.
PieceNames == {<<"a">>, <<"1">>, <<"a", E_ACUTE>>}

\* The pieces a string is put together from.
Pieces ==
    {[kind |-> "literal", name |-> <<"x">>]}
        \cup {[kind |-> k, name |-> n] : k \in {"escaped", "reference"}, n \in PieceNames}

PieceText(g) ==
    IF g.kind = "literal" THEN g.name
    ELSE IF g.kind = "escaped" THEN <<BS>> \o Reference(g.name)
    ELSE Reference(g.name)

PieceSeqs == UNION {[1..n -> Pieces] : n \in 0..MaxPieces}

\* The string the pieces make.
TextOf(gs) == Join([n \in 1..Len(gs) |-> PieceText(gs[n])], <<>>)

\* The environments replace_variables reads: empty, or with a value that
\* itself holds a ${...}.
InterpEnvs == { <<>>, <<"a">> :> Reference(<<"b">>) @@ <<"b">> :> <<"x">> }

\* A string and an environment are chosen.
InterpInit ==
    /\ pc = "interp_call"
    /\ cmd \in {TextOf(gs) : gs \in PieceSeqs}
    /\ env \in InterpEnvs
    /\ cycles = 0 /\ mode = "none" /\ errs = {}
    /\ logical_pwd = InitialDir /\ cwd = InitialDir /\ exit_code = 0 /\ prev_dir = <<>>
    /\ commands = <<>> /\ pipe_fds = <<>> /\ pids = <<>> /\ idx = 0
    /\ fds = StdFds
    /\ procs = [p \in Pids |-> NoProc]
    /\ pipes = [j \in Stages |-> <<>>]
    /\ io = [k \in Stages |-> NoIO]
    /\ forks = <<>> /\ waits = <<>> /\ npipes = 0 /\ captured = <<>>
    /\ interrupted = FALSE
    /\ interp = NoInterp

\* cmd, success = replace_variables(cmd)
Interpolate ==
    /\ pc = "interp_call"
    /\ pc' = "interp_done"
    /\ interp' = replace_variables(cmd, env)
    /\ errs' = IF replace_variables(cmd, env).ok THEN {}
               ELSE {"mysh: syntax error: invalid characters for variable"}
    /\ UNCHANGED <<cycles, cmd, mode, shellVars, pipelineVars, fds, procs, pipes, io, forks,
                   waits, npipes, captured, interrupted>>

SpecInterp == InterpInit /\ [][Interpolate]_vars

\* ------------------------------------------------------------ properties

Count(seq, x) == Cardinality({n \in DOMAIN seq : seq[n] = x})
IsPrefix(a, b) == Len(a) <= Len(b) /\ Slice(b, 1, Len(a)) = a
Live(p) == procs[p].st \notin {"none", "zombie"}

\* The line of this cycle has a syntax error: an empty stage, an open quote, or
\* a ${...} whose name is not a variable name.
HasSyntaxError(l) ==
    IF HasPipeChar(l)
    THEN \E n \in 1..Len(split_by_pipe_op(l)) :
            LET stage == split_by_pipe_op(l)[n] IN
            \/ IsBlank(stage)
            \/ ~replace_variables(stage, <<>>).ok
            \/ ~custom_split_command(stage).ok
    ELSE \/ ~replace_variables(l, <<>>).ok
         \/ ~custom_split_command(l).ok

\* C1: when execute_pipeline is left with every os.pipe and os.fork having
\* succeeded and no interrupt, it has forked one child per stage and waited on
\* each of them exactly once.
C1_EveryStageReaped ==
    ( /\ mode = "pipeline"
      /\ pc \in {"prompt", "crashed"}
      /\ ~HasEmptyStage(commands)
      /\ ~interrupted
      /\ errs \cap {"OSError: pipe", "OSError: fork"} = {} )
    => /\ Len(forks) = NumCommands
       /\ \A k \in 0..(NumCommands - 1) :
            Count(forks, Stage(k)) = 1 /\ Count(waits, Stage(k)) = 1

\* C2: a pipeline cannot hang: while the parent is in its wait loop (every
\* fork and exec having succeeded), some process of the pipeline can take a
\* step, or the wait the parent is blocked in can return.
C2_PipelineCannotHang ==
    (mode = "pipeline" /\ pc = "wait" /\ "Error executing command" \notin errs)
        => ENABLED (Children \/ WaitStage)

\* C3: a stage child that has rebound its standard streams and launches its
\* stage holds no pipe descriptor besides standard input and standard output.
C3_ChildClosesOtherEnds ==
    mode = "pipeline" =>
        \A k \in Stages :
            procs[Stage(k)].st = "waiting" => DOMAIN procs[Stage(k)].fds \subseteq 0..2

\* C4: the program of stage k reads the read end of pipe k-1 (the terminal for
\* stage 0) and writes the write end of pipe k (the terminal for the last
\* stage), and what stage k+1 has read, followed by what pipe k holds, is what
\* stage k has written.
C4_PipelineWiring ==
    mode = "pipeline" =>
        /\ \A k \in Stages :
            Running(k) =>
                /\ Stdin(k) = IF k > 0 THEN ReadEnd(k - 1) ELSE Tty
                /\ Stdout(k) = IF k < NumCommands - 1 THEN WriteEnd(k) ELSE Tty
        /\ \A k \in 0..(NumCommands - 2) :
            /\ IsPrefix(io[k + 1].in, io[k].out)
            /\ io[k].nout <= MaxBytes => io[k + 1].in \o pipes[k] = io[k].out

\* A two-stage pipeline has ended after its second program read every byte the
\* first one wrote.
C4_Witness ==
    /\ mode = "pipeline"
    /\ pc = "prompt"
    /\ NumCommands >= 2
    /\ Len(io[0].out) = MaxBytes
    /\ io[1].in = io[0].out
    /\ Len(waits) = NumCommands

\* C5: after os.fork has failed for a stage the interpreter lives on, and at the
\* end of the cycle every child forked before has been waited on.
C5_ForkFailureHandled ==
    "OSError: fork" \in errs =>
        /\ pc # "crashed"
        /\ pc = "prompt" => \A n \in DOMAIN forks : Count(waits, forks[n]) = 1

\* C6: when a stage the segmenter returned is empty or blank, run_command
\* reports the syntax error and returns with no pipe and no process created.
C6_EmptyStageRejected ==
    (mode = "pipeline" /\ \E n \in 1..Len(commands) : IsBlank(commands[n])) =>
        /\ pc \in {"prompt", "exited"}
        /\ "mysh: syntax error: expected command after pipe" \in errs
        /\ npipes = 0
        /\ forks = <<>>
        /\ \A p \in Pids : procs[p].st = "none"

\* The line `echo | | cat` has been rejected.
C6_Witness ==
    /\ pc = "prompt"
    /\ cmd = echo \o sp \o bar \o sp \o bar \o sp \o cat
    /\ commands = <<echo \o sp, sp, sp \o cat>>
    /\ errs = {"mysh: syntax error: expected command after pipe"}

\* C7: a line with a syntax error creates no process and does not end the
\* interpreter (no system call failing, no interrupt).
C7_SyntaxErrorBeforeAnyProcess ==
    ( /\ cycles > 0
      /\ HasSyntaxError(cmd)
      /\ ~interrupted
      /\ errs \cap {"OSError: pipe", "OSError: fork"} = {} )
    => (forks = <<>> /\ pc # "crashed")

\* C8: nothing but exit and the end of input ends the interpreter.
C8_SessionSurvives == pc # "crashed"

\* C9: no child returns from execute_external_command to its caller and no
\* child runs the read loop.
C9_ChildNeverReturns ==
    \A p \in Pids : ~procs[p].ret /\ procs[p].st # "readloop"

\* C10: when a cycle that a keyboard interrupt cut short is back at the prompt,
\* every child the interpreter forked in it has been waited on.
C10_InterruptStillReaps ==
    (pc = "prompt" /\ interrupted) => \A n \in DOMAIN forks : Count(waits, forks[n]) = 1

\* C11: `cd -` after a successful cd sets the Logical Working Directory to the
\* value it had immediately before the most recent successful cd.
C11_CdDashReturns ==
    [][ ( /\ cycles' = cycles + 1
          /\ cmd' = cd \o sp \o <<"-">>
          /\ prev_dir # <<>>
          /\ pc' = "prompt"
          /\ errs' = {} )
        => logical_pwd' = prev_dir ]_vars

\* C12: a pipeline stage whose first word names a built-in is run by the
\* built-in's handler in the stage child: the stage child launches no program
\* for it.
C12_StageDispatchesBuiltins ==
    mode = "pipeline" =>
        \A k \in 0..(NumCommands - 1) :
            LET t == shlex_split(commands[k + 1]) IN
            (t.ok /\ t.args # <<>> /\ t.args[1] \in command_map)
                => procs[Prog(k)].st = "none" /\ procs[Stage(k)].st # "waiting"

\* The words of an exit command line, <<>> for any other line.
ExitArgs(l) ==
    LET t == custom_split_command(l) IN
    IF ~HasPipeChar(l) /\ t.ok /\ t.args # <<>> /\ t.args[1] = exit THEN t.args ELSE <<>>

\* C13 as stated: `exit n` ends the interpreter with exit code n.
C13_ExitCodeIsN ==
    [][ (cycles' = cycles + 1 /\ Len(ExitArgs(cmd')) = 2 /\ IsInt(ExitArgs(cmd')[2]))
        => (pc' = "exited" /\ exit_code' = IntOf(ExitArgs(cmd')[2])) ]_vars

\* C13: `exit n` with n an integer ends the interpreter with exit status
\* n mod 256; `exit` with a non-integer argument or with more than one argument
\* reports an error and the interpreter reads on; bare `exit` and the end of
\* input end it with status 0.
C13_ExitContract ==
    [][ /\ (cycles' = cycles + 1 /\ Len(ExitArgs(cmd')) = 2 /\ IsInt(ExitArgs(cmd')[2]))
            => (pc' = "exited" /\ exit_code' = IntOf(ExitArgs(cmd')[2]) % 256)
        /\ (cycles' = cycles + 1 /\ Len(ExitArgs(cmd')) = 1)
            => (pc' = "exited" /\ exit_code' = 0)
        /\ ( /\ cycles' = cycles + 1
             /\ \/ Len(ExitArgs(cmd')) > 2
                \/ Len(ExitArgs(cmd')) = 2 /\ ~IsInt(ExitArgs(cmd')[2]) )
            => (pc' = "prompt" /\ errs' = {"exit: usage"} /\ exit_code' = exit_code)
        /\ (pc = "prompt" /\ pc' = "exited" /\ cycles' = cycles)
            => exit_code' = 0 ]_vars

\* `exit 300` has ended the interpreter, with status 44.
C13_Witness ==
    pc = "exited" /\ cmd = exit \o sp \o <<"3", "0", "0">> /\ exit_code = 44

\* The line calls var, cd, pwd or exit with a wrong argument count or an invalid
\* flag: var takes exactly two arguments after an optional -s, cd at most one,
\* pwd only -P flags, exit at most one.
WrongUsage(l) ==
    LET t == custom_split_command(l)
        a == t.args
        flag == Len(a) >= 2 /\ Len(a[2]) >= 1 /\ a[2][1] = "-"
    IN  /\ ~HasPipeChar(l) /\ replace_variables(l, <<>>).ok /\ t.ok /\ a # <<>>
        /\ \/ a[1] = var /\ (IF flag THEN a[2] # <<"-", "s">> \/ Len(a) # 4 ELSE Len(a) # 3)
           \/ a[1] = cd /\ Len(a) > 2
           \/ a[1] = pwd /\ handle_pwd_command(a) = "usage"
           \/ a[1] = exit /\ Len(a) > 2

\* C14: a built-in called with a wrong argument count or an invalid flag leaves
\* the Environment Map, the Logical Working Directory and the current directory
\* as they were.
C14_UsageErrorMutatesNothing ==
    [][ (cycles' = cycles + 1 /\ WrongUsage(cmd')) => UNCHANGED <<env, logical_pwd, cwd>> ]_vars

\* The claim's pattern for a name: ^[A-Za-z_][A-Za-z0-9_]*$
AsciiName(name) ==
    /\ Len(name) >= 1
    /\ name[1] \in Letters
    /\ \A i \in 2..Len(name) : name[i] \in Letters \cup Digits

\* A ${NAME} not preceded by a backslash whose NAME is no name.
HasInvalidReference(gs) ==
    \E n \in 1..Len(gs) : gs[n].kind = "reference" /\ ~AsciiName(gs[n].name)

\* What each piece becomes: a literal itself, a \${NAME} the text ${NAME}, a
\* ${NAME} the value of NAME in e, or nothing when it has none.
Expected(gs, e) ==
    Join([n \in 1..Len(gs) |->
            IF gs[n].kind = "literal" THEN gs[n].name
            ELSE IF gs[n].kind = "escaped" THEN Reference(gs[n].name)
            ELSE EnvGet(e, gs[n].name)], <<>>)

\* C15: a string with a ${NAME} that is not escaped and whose NAME does not
\* match ^[A-Za-z_][A-Za-z0-9_]*$ makes replace_variables fail and return no
\* string, whatever stands before it.
C15_InvalidNameRejected ==
    pc = "interp_done" =>
        \A gs \in PieceSeqs :
            (TextOf(gs) = cmd /\ HasInvalidReference(gs))
                => (~interp.ok /\ interp.str = <<>>)

\* C16: replace_variables turns every \${NAME} into the text ${NAME} without
\* looking at NAME or the environment, and every other ${NAME} into the value
\* of NAME, in one pass over the string.
C16_EscapedInterpolation ==
    pc = "interp_done" =>
        \A gs \in PieceSeqs :
            (TextOf(gs) = cmd /\ ~HasInvalidReference(gs))
                => (interp.ok /\ interp.str = Expected(gs, env))

\* `\${1}${a}` was interpolated to `${1}${b}`: the escaped name is not a
\* name, and the value of a holds a ${...}.
C16_Witness ==
    /\ pc = "interp_done"
    /\ cmd = <<BS>> \o Reference(<<"1">>) \o Reference(<<"a">>)
    /\ env = (<<"a">> :> Reference(<<"b">>) @@ <<"b">> :> <<"x">>)
    /\ interp = [ok |-> TRUE, str |-> Reference(<<"1">>) \o Reference(<<"b">>)]

\* The command of a capture resolves and the kernel can run it.
CaptureRuns(l, e) ==
    LET args == expand_path_in_args(shlex_split(CaptureOf(l, e).value).args, e)
    IN  Resolve(args) = "ok" /\ ~ExecRaises(args[1])

\* C17: `var -s X cmd` sets X to the whole output of the child, after the parent
\* has closed its write end, read to the end of file and waited for the child;
\* when cmd does not resolve or cannot be run the Environment Map stays as it
\* was.
C17_CaptureMode ==
    [][ /\ (mode = "capture" /\ pc = "cap_wait" /\ pc' = "prompt" /\ ~interrupted')
            => IF CaptureRuns(cmd, env)
               THEN /\ env' = EnvSet(env, CaptureOf(cmd, env).name, io[0].out)
                    /\ waits' = <<Prog(0)>>
               ELSE env' = env
        /\ (cycles' = cycles + 1 /\ mode' = "capture" /\ pc' = "prompt") => env' = env
        /\ (mode' = "capture" /\ pc' = "cap_read") => WriteEnd(0) \notin Range(fds') ]_vars

\* C18: when the cycle of a pipeline ends the interpreter holds no pipe
\* descriptor of it, and the closing loop of execute_pipeline calls close only
\* on descriptors that are open pipe ends of the interpreter at that moment.
C18_NoDescriptorLeak ==
    [][ /\ (mode = "pipeline" /\ pc # "prompt" /\ pc' = "prompt" /\ ~interrupted')
            => \A n \in DOMAIN fds' : fds'[n][1] \notin {"r", "w"}
        /\ (mode = "pipeline" /\ pc = "close_fds" /\ pc' = "wait")
            => \A n \in DOMAIN pipe_fds :
                    /\ pipe_fds[n][1] \in DOMAIN fds /\ fds[pipe_fds[n][1]] = ReadEnd(n - 1)
                    /\ pipe_fds[n][2] \in DOMAIN fds /\ fds[pipe_fds[n][2]] = WriteEnd(n - 1) ]_vars

\* C19: execute_pipeline runs only with two stages or more: a line whose `|`
\* are all inside quotes is interpolated and dispatched in the interpreter like
\* any single command.
C19_OrchestratorNeedsTwoStages ==
    /\ pc \in {"create_pipes", "fork", "close_fds", "wait"} => NumCommands >= 2
    /\ (cycles > 0 /\ HasPipeChar(cmd) /\ Len(split_by_pipe_op(cmd)) = 1) => mode # "pipeline"

\* The exceptions of os.chdir that handle_cd_command reports.
CdErrors == {"FileNotFoundError", "NotADirectoryError", "PermissionError"}

\* C20: a cd whose target does not exist, is no directory or cannot be entered
\* fails and leaves the Logical Working Directory, the Environment Map (PWD and
\* OLDPWD with it) and the current directory as they were; after a cd that
\* succeeds PWD is the Logical Working Directory and the current directory is
\* the directory it names.
C20_FailedCdIsAtomic ==
    [][ (cycles' = cycles + 1 /\ Classify(cmd', env).kind = "cd") =>
            LET a == Classify(cmd', env).args IN
            /\ (errs' \cap CdErrors # {}) => UNCHANGED <<logical_pwd, cwd, env>>
            /\ (pc' = "prompt" /\ errs' = {})
                => /\ PWD \in DOMAIN env' /\ env'[PWD] = logical_pwd'
                   /\ cwd' = logical_pwd'
                   /\ logical_pwd' \in Dirs
            /\ (Len(a) = 2 /\ Len(a[2]) >= 1 /\ a[2][1] = "/" /\ a[2] \notin Dirs)
                => (pc' = "prompt" /\ errs' \cap CdErrors # {}) ]_vars

\* After `cd /t` succeeded, `cd /n` failed and left everything as it was.
C20_Witness ==
    /\ pc = "prompt"
    /\ cmd = cd \o sp \o <<"/", "n">>
    /\ errs = {"FileNotFoundError"}
    /\ logical_pwd = <<"/", "t">>
    /\ cwd = <<"/", "t">>
    /\ PWD \in DOMAIN env /\ env[PWD] = <<"/", "t">>

====
